---- MODULE Spec2Model ----
(***************************************************************************)
(* Model of Sdpei-CourseTableToiCS.py: the timetable pipeline              *)
(*   parse_course_info -> save_courses_to_json -> generate_ics_from_json   *)
(* as run by main for the iCS option, and generate_ics_from_json on its    *)
(* own over a structured export.                                           *)
(*                                                                         *)
(* Text is a sequence of characters, each character a TLA+ string:         *)
(* "NL" is the newline, "SP" a space, "BS" a backslash, "Ji" the character *)
(* of the recognised building prefix, "Zhou" the week suffix character.    *)
(* A run of digits is one character, "1", "2", ...                         *)
(* A date is Python's proleptic Gregorian ordinal (0001-01-01 is 1, a      *)
(* Monday); an eight digit date string is the number it spells.            *)
(***************************************************************************)
EXTENDS Integers, Sequences, FiniteSets, TLC

VARIABLES
  cells,            \* the .divOneClass elements of the page, in document order
  pi,               \* parse_course_info: elements consumed by the merge loop
  course_infos,     \* parse_course_info: the list being built
  json_file,        \* the structured export on disk (list of records)
  first_week_date,  \* the anchor date as typed, YYYYMMDD
  alarm_minutes,    \* reminder lead time
  holidays,         \* the holiday oracle: the dates is_holiday answers True for
  courses,          \* generate_ics_from_json: the loaded records
  ci,               \* generate_ics_from_json: index of the next record
  initial_time,     \* generate_ics_from_json: the parsed anchor date
  ics_exists,       \* whether the calendar file exists on disk
  ics_file,         \* the calendar file's content, a sequence of blocks
  emitted,          \* the loop's locals at each f.write of an event block
  pc,               \* position in the pipeline
  result,           \* what generate_ics_from_json returned
  error             \* the exception or early return that ended the run

vars == <<cells, pi, course_infos, json_file, first_week_date, alarm_minutes,
          holidays, courses, ci, initial_time, ics_exists, ics_file, emitted,
          pc, result, error>>

(***************************************************************************)
(* Bounds of the model.                                                    *)
(***************************************************************************)
MaxCells == 4
MaxWeek == 4

(***************************************************************************)
(* Text helpers.                                                           *)
(***************************************************************************)
IsSpace(c) == c \in {"SP", "NL"}

RECURSIVE LStrip(_)
LStrip(s) == IF s # <<>> /\ IsSpace(Head(s)) THEN LStrip(Tail(s)) ELSE s

RECURSIVE RStrip(_)
RStrip(s) ==
  IF s # <<>> /\ IsSpace(s[Len(s)]) THEN RStrip(SubSeq(s, 1, Len(s) - 1)) ELSE s

\* str.strip()
Strip(s) == RStrip(LStrip(s))

\* str.replace(old, new) for a single character old
RECURSIVE Replace(_, _, _)
Replace(s, old, new) ==
  IF s = <<>> THEN <<>>
  ELSE (IF Head(s) = old THEN new ELSE <<Head(s)>>) \o Replace(Tail(s), old, new)

\* str.split(sep) for a single character sep
RECURSIVE Split(_, _)
Split(s, sep) ==
  IF \A i \in 1..Len(s) : s[i] # sep THEN <<s>>
  ELSE LET k == CHOOSE i \in 1..Len(s) :
                   s[i] = sep /\ \A j \in 1..(i - 1) : s[j] # sep
       IN <<SubSeq(s, 1, k - 1)>> \o Split(SubSeq(s, k + 1, Len(s)), sep)

InstitutionName == <<"Shan", "Dong", "Ti", "Yu", "Xue", "Yuan">>

format_building_name(building_name) ==
  IF Len(building_name) >= 2 /\ building_name[1] = "Ji" /\ building_name[2] = "-"
  THEN InstitutionName \o SubSeq(building_name, 3, Len(building_name))
  ELSE building_name

\* int(text): the text is one run of digits, anything else is a ValueError
IntOf == [t \in {"1", "2", "3"} |-> CASE t = "1" -> 1 [] t = "2" -> 2 [] t = "3" -> 3]

IsInt(s) == Len(s) = 1 /\ s[1] \in DOMAIN IntOf

Range(a, b) == [i \in 1..(IF b >= a THEN b - a + 1 ELSE 0) |-> a + i - 1]

parse_weeks_string(weeks_str) ==
  LET t == Replace(weeks_str, "Zhou", <<>>)
      parts == Split(t, "-")
  IN IF Len(parts) = 2 /\ IsInt(parts[1]) /\ IsInt(parts[2])
     THEN Range(IntOf[parts[1][1]], IntOf[parts[2][1]])
     ELSE IF IsInt(t) THEN <<IntOf[t[1]]>> ELSE <<>>

sections_to_array(section) == <<section, section + 1>>

(***************************************************************************)
(* parse_course_info: one element of the page per step.                    *)
(***************************************************************************)
Separator == <<"SP", "SP">>

CourseInfo(el) ==
  [name     |-> Strip(el.spLUName),
   teacher  |-> Strip(el.spTeacherName),
   weeks    |-> parse_weeks_string(Strip(el.spWeekInfo)),
   position |-> format_building_name(Strip(el.spBuilding)) \o <<"NL">>
                  \o Strip(el.spClassroom),
   sections |-> sections_to_array(el.row),
   day      |-> el.col]

\* a scan that does not compare the weeks
SameSlotNoWeeks(info, course_info) ==
  /\ info.day = course_info.day
  /\ info.sections = course_info.sections

SameSlot(info, course_info) ==
  /\ info.day = course_info.day
  /\ info.weeks = course_info.weeks
  /\ info.sections = course_info.sections

\* a merge that joins the positions without the separator
MergeIntoNoSeparator(infos, course_info) ==
  IF \E i \in 1..Len(infos) : SameSlot(infos[i], course_info)
  THEN LET k == CHOOSE i \in 1..Len(infos) : SameSlot(infos[i], course_info)
       IN [infos EXCEPT ![k].position = @ \o course_info.position]
  ELSE Append(infos, course_info)

\* index of the first entry the scan stops at, 0 when it finds none
ExistingCourse(infos, course_info) ==
  IF \E i \in 1..Len(infos) : SameSlot(infos[i], course_info)
  THEN CHOOSE i \in 1..Len(infos) :
         /\ SameSlot(infos[i], course_info)
         /\ \A j \in 1..(i - 1) : ~SameSlot(infos[j], course_info)
  ELSE 0

MergeInto(infos, course_info) ==
  LET k == ExistingCourse(infos, course_info)
  IN IF k # 0
     THEN [infos EXCEPT ![k].position = @ \o Separator \o course_info.position]
     ELSE Append(infos, course_info)

ParseStep ==
  /\ pc = "parse"
  /\ pi < Len(cells)
  /\ pi' = pi + 1
  /\ course_infos' = MergeInto(course_infos, CourseInfo(cells[pi + 1]))
  /\ UNCHANGED <<cells, json_file, first_week_date, alarm_minutes, holidays,
                 courses, ci, initial_time, ics_exists, ics_file, emitted, pc,
                 result, error>>

(***************************************************************************)
(* Dates: datetime.strptime(text, "%Y%m%d"), datetime + timedelta(days=n)  *)
(* and strftime("%Y%m%d"), on proleptic Gregorian ordinals.                *)
(***************************************************************************)
IsLeap(y) == y % 4 = 0 /\ (y % 100 # 0 \/ y % 400 = 0)

DaysInMonth(y, m) ==
  IF m = 2 THEN (IF IsLeap(y) THEN 29 ELSE 28)
  ELSE IF m \in {4, 6, 9, 11} THEN 30 ELSE 31

RECURSIVE DaysBeforeMonth(_, _)
DaysBeforeMonth(y, m) ==
  IF m = 1 THEN 0 ELSE DaysBeforeMonth(y, m - 1) + DaysInMonth(y, m - 1)

DaysBeforeYear(y) ==
  (y - 1) * 365 + ((y - 1) \div 4) - ((y - 1) \div 100) + ((y - 1) \div 400)

Ymd2Ord(y, m, d) == DaysBeforeYear(y) + DaysBeforeMonth(y, m) + d

\* whether strptime accepts the eight digits
ValidDate(text) ==
  LET y == text \div 10000
      m == (text \div 100) % 100
      d == text % 100
  IN /\ y >= 1
     /\ m \in 1..12
     /\ d >= 1
     /\ d <= DaysInMonth(y, m)

Strptime(text) == Ymd2Ord(text \div 10000, (text \div 100) % 100, text % 100)

RECURSIVE MonthOf(_, _, _)
MonthOf(y, m, n) ==
  IF n < DaysInMonth(y, m) THEN <<m, n + 1>>
  ELSE MonthOf(y, m + 1, n - DaysInMonth(y, m))

\* strftime("%Y%m%d") of an ordinal, as the number the eight digits spell
Strftime(ord) ==
  LET n0 == ord - 1
      n400 == n0 \div 146097
      r400 == n0 % 146097
      n100 == r400 \div 36524
      r100 == r400 % 36524
      n4 == r100 \div 1461
      r4 == r100 % 1461
      n1 == r4 \div 365
      r1 == r4 % 365
      year == n400 * 400 + 1 + n100 * 100 + n4 * 4 + n1
  IN IF n1 = 4 \/ n100 = 4
     THEN (year - 1) * 10000 + 1231
     ELSE LET md == MonthOf(year, 1, r1)
          IN year * 10000 + md[1] * 100 + md[2]

\* datetime.weekday(): Monday is 0
Weekday(ord) == (ord + 6) % 7

(***************************************************************************)
(* save_courses_to_json, and json.dump / json.load of the export.  The     *)
(* display labels "time", "sections" and "weeks" of a record are written   *)
(* and never read back; they are left out.                                 *)
(***************************************************************************)
\* json.dump(..., ensure_ascii=False) of a string: the escapes of its characters
JsonEscape(s) ==
  Replace(Replace(s, "BS", <<"BS", "BS">>), "NL", <<"BS", "n">>)

\* json.load of a string
RECURSIVE JsonUnescape(_)
JsonUnescape(s) ==
  IF s = <<>> THEN <<>>
  ELSE IF Head(s) = "BS" /\ Len(s) >= 2
       THEN <<IF s[2] = "n" THEN "NL" ELSE s[2]>> \o JsonUnescape(Tail(Tail(s)))
       ELSE <<Head(s)>> \o JsonUnescape(Tail(s))

\* an export that keeps the position as parsed
FormattedCourseRaw(course) ==
  [name          |-> course.name,
   teacher       |-> course.teacher,
   weeks_array   |-> course.weeks,
   position      |-> course.position,
   day           |-> course.day,
   section_array |-> course.sections]

FormattedCourse(course) ==
  [name          |-> course.name,
   teacher       |-> course.teacher,
   weeks_array   |-> course.weeks,
   position      |-> Replace(course.position, "NL", <<"-">>),
   day           |-> course.day,
   section_array |-> course.sections]

JsonDump(formatted_courses) ==
  [i \in 1..Len(formatted_courses) |->
     [formatted_courses[i] EXCEPT !.name = JsonEscape(@),
                                  !.teacher = JsonEscape(@),
                                  !.position = JsonEscape(@)]]

JsonLoad(file) ==
  [i \in 1..Len(file) |->
     [file[i] EXCEPT !.name = JsonUnescape(@),
                     !.teacher = JsonUnescape(@),
                     !.position = JsonUnescape(@)]]

save_courses_to_json(course_list) ==
  JsonDump([i \in 1..Len(course_list) |-> FormattedCourse(course_list[i])])

\* main, lines 483-498: the parsed list is saved when it is not empty and the
\* user picks the iCS format
MainSave ==
  /\ pc = "parse"
  /\ pi = Len(cells)
  /\ IF course_infos = <<>>
     THEN /\ pc' = "exit"
          /\ UNCHANGED json_file
     ELSE /\ json_file' = save_courses_to_json(course_infos)
          /\ pc' = "generate"
  /\ UNCHANGED <<cells, pi, course_infos, first_week_date, alarm_minutes,
                 holidays, courses, ci, initial_time, ics_exists, ics_file,
                 emitted, result, error>>

(***************************************************************************)
(* generate_ics_from_json.  The creation stamp and the identifiers of a    *)
(* block come from the clock and from uuid4 and are left out of a block.   *)
(***************************************************************************)
class_timetable ==
  [p \in 1..10 |->
     CASE p = 1  -> [startTime |-> "080000", endTime |-> "084000"]
       [] p = 2  -> [startTime |-> "085000", endTime |-> "093000"]
       [] p = 3  -> [startTime |-> "100000", endTime |-> "104000"]
       [] p = 4  -> [startTime |-> "105000", endTime |-> "113000"]
       [] p = 5  -> [startTime |-> "133000", endTime |-> "141000"]
       [] p = 6  -> [startTime |-> "142000", endTime |-> "150000"]
       [] p = 7  -> [startTime |-> "153000", endTime |-> "161000"]
       [] p = 8  -> [startTime |-> "162000", endTime |-> "170000"]
       [] p = 9  -> [startTime |-> "180000", endTime |-> "184000"]
       [] p = 10 -> [startTime |-> "185000", endTime |-> "193000"]]

weekdays == <<"MO", "TU", "WE", "TH", "FR", "SA", "SU">>

\* weekdays[i] with Python's indexing: -7..-1 count from the end
WeekdaysIndexOk(i) == i \in (0 - 7)..6

WeekdaysAt(i) == IF i >= 0 THEN weekdays[i + 1] ELSE weekdays[i + 8]

HeaderBlock == [kind |-> "header"]

FooterBlock == [kind |-> "footer"]

is_holiday(date) == date \in holidays

\* list.sort()
RECURSIVE Insert(_, _)
Insert(x, s) ==
  IF s = <<>> THEN <<x>>
  ELSE IF x <= Head(s) THEN <<x>> \o s ELSE <<Head(s)>> \o Insert(x, Tail(s))

RECURSIVE Sort(_)
Sort(s) == IF s = <<>> THEN <<>> ELSE Insert(Head(s), Sort(Tail(s)))

\* a classification by the parity of the first week alone
WeekStatusByStart(weeks) == IF weeks[1] % 2 = 1 THEN 1 ELSE 2

\* lines 315-323
WeekStatus(weeks) ==
  LET is_odd == \A i \in 1..Len(weeks) : weeks[i] % 2 = 1
      is_even == \A i \in 1..Len(weeks) : weeks[i] % 2 = 0
  IN IF is_odd THEN 1 ELSE IF is_even THEN 2 ELSE 0

\* an offset that counts the weekday from 0
DeltaTimeFromZero(start_week, day, week_status) == 7 * (start_week - 1) + day

\* lines 326-333
DeltaTime(start_week, day, week_status) ==
  LET delta_time == 7 * (start_week - 1) + day - 1
  IN IF week_status = 1
     THEN (IF start_week % 2 = 0 THEN delta_time + 7 ELSE delta_time)
     ELSE IF week_status = 2
          THEN (IF start_week % 2 # 0 THEN delta_time + 7 ELSE delta_time)
          ELSE delta_time

\* a scan of the weeks that skips none for its parity
RECURSIVE HolidayDatesEveryWeek(_, _, _, _, _)
HolidayDatesEveryWeek(week_num, start_week, end_week, week_status, first_time_obj) ==
  IF week_num > end_week THEN <<>>
  ELSE LET rest == HolidayDatesEveryWeek(week_num + 1, start_week, end_week,
                                         week_status, first_time_obj)
           class_date == first_time_obj + 7 * (week_num - start_week)
       IN IF is_holiday(class_date) THEN <<class_date>> \o rest ELSE rest

\* lines 339-351: the class dates of week_num..end_week the oracle calls holidays
RECURSIVE HolidayDates(_, _, _, _, _)
HolidayDates(week_num, start_week, end_week, week_status, first_time_obj) ==
  IF week_num > end_week THEN <<>>
  ELSE LET rest == HolidayDates(week_num + 1, start_week, end_week,
                                week_status, first_time_obj)
           week_delta == week_num - start_week
           class_date == first_time_obj + 7 * week_delta
       IN IF week_status = 1 /\ week_num % 2 = 0 THEN rest
          ELSE IF week_status = 2 /\ week_num % 2 = 1 THEN rest
          ELSE IF is_holiday(class_date) THEN <<class_date>> \o rest
          ELSE rest

\* lines 353-354
ExcludeDate(class_date, section) ==
  [date |-> Strftime(class_date), time |-> class_timetable[section].startTime]

\* lines 357-359
ExdateStr(exclude_dates) ==
  IF exclude_dates # <<>>
  THEN [line |-> TRUE, dates |-> exclude_dates]
  ELSE [line |-> FALSE, dates |-> <<>>]

\* a rule that is fortnightly only for the odd weeks
ExtraStatusOddOnly(week_status, day) ==
  IF week_status # 1
  THEN [interval |-> 1, byday |-> "none"]
  ELSE [interval |-> 2, byday |-> WeekdaysAt(day - 1)]

\* lines 361-364
ExtraStatus(week_status, day) ==
  IF week_status = 0
  THEN [interval |-> 1, byday |-> "none"]
  ELSE [interval |-> 2, byday |-> WeekdaysAt(day - 1)]

\* a bound one week late
StopTimeWeekLate(first_time_obj, start_week, end_week) ==
  first_time_obj + 7 * (end_week - start_week + 1) + 1

\* lines 375-377
StopTime(first_time_obj, start_week, end_week) ==
  LET delta_week == 7 * (end_week - start_week)
  IN first_time_obj + delta_week + 1

\* lines 267-270 and 380-390
AlarmBase ==
  IF alarm_minutes > 0
  THEN [present |-> TRUE, trigger |-> alarm_minutes]
  ELSE [present |-> FALSE, trigger |-> 0]

\* the locals of one pass of the loop over a record with weeks
Locals(course) ==
  LET weeks == Sort(course.weeks_array)
      start_week == weeks[1]
      end_week == weeks[Len(weeks)]
      week_status == WeekStatus(weeks)
      first_time_obj ==
        initial_time + DeltaTime(start_week, course.day, week_status)
  IN [weeks |-> weeks, start_week |-> start_week, end_week |-> end_week,
      week_status |-> week_status, first_time_obj |-> first_time_obj,
      holiday_dates |-> HolidayDates(start_week, start_week, end_week,
                                     week_status, first_time_obj)]

\* the exception one pass of the loop raises, "none" when it writes its block
LoopError(course, l) ==
  IF l.holiday_dates # <<>> /\ course.section_array[1] \notin DOMAIN class_timetable
  THEN "KeyError"
  ELSE IF l.week_status # 0 /\ ~WeekdaysIndexOk(course.day - 1)
  THEN "IndexError"
  ELSE IF course.section_array[1] \notin DOMAIN class_timetable
          \/ course.section_array[2] \notin DOMAIN class_timetable
  THEN "KeyError"
  ELSE "none"

\* lines 393-407
EventBlock(course, l) ==
  LET exclude_dates ==
        [i \in 1..Len(l.holiday_dates) |->
           ExcludeDate(l.holiday_dates[i], course.section_array[1])]
      extra_status == ExtraStatus(l.week_status, course.day)
  IN [kind        |-> "event",
      summary     |-> course.name,
      description |-> course.teacher,
      location    |-> course.position,
      exdate      |-> ExdateStr(exclude_dates),
      until       |-> [date |-> Strftime(StopTime(l.first_time_obj, l.start_week,
                                                   l.end_week)),
                       time |-> "000000"],
      interval    |-> extra_status.interval,
      byday       |-> extra_status.byday,
      dtstart     |-> [date |-> Strftime(l.first_time_obj),
                       time |-> class_timetable[course.section_array[1]].startTime],
      dtend       |-> [date |-> Strftime(l.first_time_obj),
                       time |-> class_timetable[course.section_array[2]].endTime],
      alarm       |-> AlarmBase]

\* lines 235-298: load the export, the two early returns, open and write the header
IcsBegin ==
  /\ pc = "generate"
  /\ courses' = JsonLoad(json_file)
  /\ IF courses' = <<>>
     THEN /\ result' = "None"
          /\ error' = "empty"
          /\ pc' = "exit"
          /\ UNCHANGED <<initial_time, ics_exists, ics_file, ci>>
     ELSE IF ~ValidDate(first_week_date)
     THEN /\ result' = "None"
          /\ error' = "ValueError"
          /\ pc' = "exit"
          /\ UNCHANGED <<initial_time, ics_exists, ics_file, ci>>
     ELSE /\ initial_time' = Strptime(first_week_date)
          /\ ics_exists' = TRUE
          /\ ics_file' = <<HeaderBlock>>
          /\ ci' = 1
          /\ pc' = "loop"
          /\ UNCHANGED <<result, error>>
  /\ UNCHANGED <<cells, pi, course_infos, json_file, first_week_date,
                 alarm_minutes, holidays, emitted>>

\* lines 301-408: one record.  An exception leaves the with block, which closes
\* the file with what was written, and the handler returns None.
IcsCourse ==
  /\ pc = "loop"
  /\ ci <= Len(courses)
  /\ LET course == courses[ci]
     IN IF course.weeks_array = <<>>
        THEN /\ ci' = ci + 1
             /\ UNCHANGED <<ics_file, emitted, pc, result, error>>
        ELSE LET l == Locals(course)
             IN IF LoopError(course, l) # "none"
                THEN /\ error' = LoopError(course, l)
                     /\ result' = "None"
                     /\ pc' = "exit"
                     /\ UNCHANGED <<ics_file, emitted, ci>>
                ELSE /\ ics_file' = Append(ics_file, EventBlock(course, l))
                     /\ emitted' = Append(emitted, [index |-> ci, locals |-> l])
                     /\ ci' = ci + 1
                     /\ UNCHANGED <<pc, result, error>>
  /\ UNCHANGED <<cells, pi, course_infos, json_file, first_week_date,
                 alarm_minutes, holidays, courses, initial_time, ics_exists>>

\* a return that leaves the footer out
IcsEndNoFooter ==
  /\ pc = "loop"
  /\ ci > Len(courses)
  /\ result' = "output_file"
  /\ pc' = "exit"
  /\ UNCHANGED <<cells, pi, course_infos, json_file, first_week_date,
                 alarm_minutes, holidays, courses, ci, initial_time, ics_exists,
                 ics_file, emitted, error>>

\* lines 411-418: the footer, and the file name is returned
IcsEnd ==
  /\ pc = "loop"
  /\ ci > Len(courses)
  /\ ics_file' = Append(ics_file, FooterBlock)
  /\ result' = "output_file"
  /\ pc' = "exit"
  /\ UNCHANGED <<cells, pi, course_infos, json_file, first_week_date,
                 alarm_minutes, holidays, courses, ci, initial_time, ics_exists,
                 emitted, error>>

(***************************************************************************)
(* The page elements the merge is explored over.                           *)
(***************************************************************************)
Element(name, teacher, week, building, room, row, col) ==
  [spLUName |-> name, spTeacherName |-> teacher, spWeekInfo |-> week,
   spBuilding |-> building, spClassroom |-> room, row |-> row, col |-> col]

W12 == <<"1", "-", "2", "Zhou">>
W3 == <<"3", "Zhou">>
W33 == <<"3", "-", "3", "Zhou">>
WBad == <<"Dan", "Zhou">>

MergeElements ==
  { Element(<<"M">>, <<"T">>, W12, <<"Ji", "-", "A">>, <<"101">>, 1, 1),
    Element(<<"P">>, <<"U">>, W12, <<"B", "SP">>, <<"202">>, 1, 1),
    Element(<<"M">>, <<"T">>, W12, <<"Ji", "-", "A">>, <<"101">>, 1, 2),
    Element(<<"P">>, <<"U">>, W12, <<"B", "SP">>, <<"202">>, 1, 2),
    Element(<<"M">>, <<"T">>, W12, <<"Ji", "-", "A">>, <<"101">>, 3, 1),
    Element(<<"M">>, <<"T">>, W3, <<"Ji", "-", "A">>, <<"101">>, 1, 1),
    Element(<<"P">>, <<"U">>, W33, <<"B", "SP">>, <<"202">>, 1, 1) }

SeqsUpTo(S, n) == UNION { [1..k -> S] : k \in 0..n }

InitIdle ==
  /\ pi = 0
  /\ course_infos = <<>>
  /\ courses = <<>>
  /\ ci = 0
  /\ initial_time = 0
  /\ ics_exists = FALSE
  /\ ics_file = <<>>
  /\ emitted = <<>>
  /\ result = "pending"
  /\ error = "none"

InitMerge ==
  /\ cells \in SeqsUpTo(MergeElements, MaxCells)
  /\ json_file = <<>>
  /\ first_week_date = 20230904
  /\ alarm_minutes = 30
  /\ holidays = {}
  /\ pc = "parse"
  /\ InitIdle

NextMerge == ParseStep

SpecMerge == InitMerge /\ [][NextMerge]_vars

(***************************************************************************)
(* generate_ics_from_json over a structured export: an empty export, or    *)
(* two records of one timetable slot, the weeks of the first among the     *)
(* weeks of the second, the second list in descending order.               *)
(***************************************************************************)
Weeks == 1..MaxWeek

Days == 0..8

Rows == {0, 1, 9, 10}

RECURSIVE Ascending(_)
Ascending(S) ==
  IF S = {} THEN <<>>
  ELSE LET m == CHOOSE x \in S : \A y \in S : x <= y
       IN <<m>> \o Ascending(S \ {m})

Reverse(s) == [i \in 1..Len(s) |-> s[Len(s) + 1 - i]]

ExportRecord(name, day, row, weeks_array) ==
  [name |-> <<name>>, teacher |-> <<"T">>, weeks_array |-> weeks_array,
   position |-> <<"B", "-", "101">>, day |-> day,
   section_array |-> sections_to_array(row)]

Exports ==
  {<<>>} \cup
  UNION { { <<ExportRecord("M", day, row, Ascending(W)),
              ExportRecord("P", day, row, Reverse(Ascending(V)))>> :
              day \in Days, row \in Rows, W \in SUBSET V } :
          V \in SUBSET Weeks }

\* the first Monday of September 2023, the Monday after, a Tuesday, no date
AnchorDates == {20230904, 20230911, 20230905, 20230931}

\* the Monday the holiday weeks are counted from
TermBase == Strptime(20230904)

WeekOf(base, w) == { base + 7 * (w - 1) + k : k \in 0..6 }

HolidayOracles ==
  { UNION { WeekOf(TermBase, w) : w \in H } :
      H \in {{}, {2}, {3, 4}, 1..(MaxWeek + 2)} }

InitIcs ==
  /\ cells = <<>>
  /\ json_file \in Exports
  /\ first_week_date \in AnchorDates
  /\ alarm_minutes = 30
  /\ holidays \in HolidayOracles
  /\ pc = "generate"
  /\ InitIdle

NextIcs == IcsBegin \/ IcsCourse \/ IcsEnd

SpecIcs == InitIcs /\ [][NextIcs]_vars

(***************************************************************************)
(* The pipeline of main for the iCS option.                                *)
(***************************************************************************)
PipelineElements ==
  { Element(<<"M">>, <<"T">>, W12, <<"Ji", "-", "A">>, <<"101">>, 1, 1),
    Element(<<"P", "NL", "Q">>, <<"U">>, W12, <<"B", "SP">>, <<"2", "BS", "n">>,
            1, 1),
    Element(<<"R">>, <<"T">>, W3, <<"C">>, <<"303">>, 10, 3),
    Element(<<"S">>, <<"V">>, WBad, <<"D">>, <<"404">>, 3, 2) }

Init ==
  /\ cells \in SeqsUpTo(PipelineElements, MaxCells)
  /\ json_file = <<>>
  /\ first_week_date \in {20230904, 20230931}
  /\ alarm_minutes \in {0, 30}
  /\ holidays \in { {}, WeekOf(TermBase, 1) \cup WeekOf(TermBase, 3) }
  /\ pc = "parse"
  /\ InitIdle

Next == ParseStep \/ MainSave \/ IcsBegin \/ IcsCourse \/ IcsEnd

Spec == Init /\ [][Next]_vars

(***************************************************************************)
(* Properties.                                                             *)
(***************************************************************************)
SetOf(s) == { s[i] : i \in 1..Len(s) }

EventAt(k) == ics_file[k + 1]

CourseOf(k) == courses[emitted[k].index]

Emitted == 1..Len(emitted)

InTimetable(p) == p \in 1..10

\* a record with weeks whose first or second period has no clock time
BadPeriod(course) ==
  /\ course.weeks_array # <<>>
  /\ ~(InTimetable(course.section_array[1]) /\ InTimetable(course.section_array[2]))

Complete(file) ==
  /\ Len(file) >= 2
  /\ file[1].kind = "header"
  /\ file[Len(file)].kind = "footer"

\* C1: when a record with weeks has a period outside 1..10 the run returns no
\* file name, and the calendar file is absent or complete (footer written).
C1_NoPartialFile ==
  (pc = "exit" /\ \E i \in 1..Len(courses) : BadPeriod(courses[i]))
  => /\ result = "None"
     /\ (~ics_exists \/ Complete(ics_file))

\* the half of C1 the code keeps: such a run never returns a file name
C1_RunFails ==
  (pc = "exit" /\ \E i \in 1..Len(courses) : BadPeriod(courses[i]))
  => result = "None"

Pattern(W) ==
  IF \A w \in W : w % 2 = 1 THEN "ODD_WEEKS"
  ELSE IF \A w \in W : w % 2 = 0 THEN "EVEN_WEEKS"
  ELSE "EVERY_WEEK"

IsoCode(d) ==
  CASE d = 1 -> "MO" [] d = 2 -> "TU" [] d = 3 -> "WE" [] d = 4 -> "TH"
    [] d = 5 -> "FR" [] d = 6 -> "SA" [] d = 7 -> "SU"

\* C2: all-odd weeks give week_status 1, all-even 2, mixed 0; the rule has
\* INTERVAL=2 and BYDAY of the session's day for 1 and 2, INTERVAL=1 and no
\* BYDAY for 0.
C2_Classification ==
  \A k \in Emitted :
    LET c == CourseOf(k)
        pat == Pattern(SetOf(c.weeks_array))
        ev == EventAt(k)
    IN c.day \in 1..7 =>
         /\ (pat = "ODD_WEEKS") = (emitted[k].locals.week_status = 1)
         /\ (pat = "EVEN_WEEKS") = (emitted[k].locals.week_status = 2)
         /\ (pat = "EVERY_WEEK") = (emitted[k].locals.week_status = 0)
         /\ (pat # "EVERY_WEEK") = (ev.interval = 2 /\ ev.byday = IsoCode(c.day))
         /\ (pat = "EVERY_WEEK") = (ev.interval = 1 /\ ev.byday = "none")

C2_Witness ==
  /\ Len(emitted) = 2
  /\ EventAt(1).interval = 2
  /\ EventAt(1).byday = "WE"
  /\ Len(CourseOf(1).weeks_array) = 2
  /\ EventAt(2).interval = 1
  /\ EventAt(2).byday = "none"

MondayAnchor == Weekday(initial_time) = 0

\* C3: with a Monday anchor and a weekday d in 1..7, the first occurrence
\* (the locals' first_time_obj, and the date DTSTART prints) is on weekday d.
C3_FirstOccurrenceWeekday ==
  \A k \in Emitted :
    (MondayAnchor /\ CourseOf(k).day \in 1..7) =>
      /\ Weekday(emitted[k].locals.first_time_obj) + 1 = CourseOf(k).day
      /\ Weekday(Strptime(EventAt(k).dtstart.date)) + 1 = CourseOf(k).day

C3_Witness ==
  /\ pc = "exit"
  /\ Len(emitted) = 2
  /\ MondayAnchor
  /\ CourseOf(1).day = 7
  /\ emitted[1].locals.week_status = 2
  /\ emitted[2].locals.week_status = 0
  /\ emitted[2].locals.start_week = 2
  /\ Weekday(emitted[2].locals.first_time_obj) = 6

ParityFits(w, pat) ==
  \/ pat = "EVERY_WEEK"
  \/ pat = "ODD_WEEKS" /\ w % 2 = 1
  \/ pat = "EVEN_WEEKS" /\ w % 2 = 0

Min(S) == CHOOSE x \in S : \A y \in S : x <= y

Max(S) == CHOOSE x \in S : \A y \in S : x >= y

\* the weeks of a record whose occurrence the oracle calls a holiday
HolidayWeeks(c) ==
  LET W == SetOf(c.weeks_array)
  IN { w \in Min(W)..Max(W) :
         /\ ParityFits(w, Pattern(W))
         /\ (initial_time + 7 * (w - 1) + (c.day - 1)) \in holidays }

\* C4: the EXDATE entries are, in ascending order, the dates
\* anchor + 7*(w-1) + (weekday-1) of the weeks w of startWeek..endWeek that fit
\* the pattern's parity and are holidays, each at the start time of the first
\* period; the EXDATE line is there iff there is such a date.
C4_ExcludedDates ==
  \A k \in Emitted :
    LET c == CourseOf(k)
        hw == Ascending(HolidayWeeks(c))
        ex == EventAt(k).exdate
    IN /\ Len(ex.dates) = Len(hw)
       /\ \A i \in 1..Len(hw) :
            /\ ex.dates[i].date
                 = Strftime(initial_time + 7 * (hw[i] - 1) + (c.day - 1))
            /\ ex.dates[i].time = class_timetable[c.section_array[1]].startTime
       /\ ex.line = (hw # <<>>)

C4_Witness ==
  /\ Len(emitted) = 2
  /\ emitted[1].locals.week_status = 1
  /\ emitted[1].locals.end_week = emitted[1].locals.start_week + 2
  /\ Len(EventAt(1).exdate.dates) = 1
  /\ EventAt(1).exdate.line
  /\ CourseOf(1).section_array[1] = 9
  /\ Len(EventAt(2).exdate.dates) = 2
  /\ Len(CourseOf(2).weeks_array) = 4

\* C7: of two sessions of one weekday and first period, the weeks of one
\* among the weeks of the other, every exclusion date of the first is one of
\* the second.
C7_Monotonic ==
  \A i \in Emitted, j \in Emitted :
    LET a == CourseOf(i)
        b == CourseOf(j)
    IN (/\ a.day = b.day
        /\ a.section_array[1] = b.section_array[1]
        /\ SetOf(a.weeks_array) \subseteq SetOf(b.weeks_array))
       => SetOf(EventAt(i).exdate.dates) \subseteq SetOf(EventAt(j).exdate.dates)

C7_Witness ==
  /\ Len(emitted) = 2
  /\ emitted[1].locals.week_status = 2
  /\ emitted[2].locals.week_status = 0
  /\ emitted[2].locals.start_week < emitted[1].locals.start_week
  /\ Len(EventAt(1).exdate.dates) = 1
  /\ Len(EventAt(2).exdate.dates) = 2

WithWeeks == SelectSeq(courses, LAMBDA c : c.weeks_array # <<>>)

\* C6: a run that returns the file name wrote the header once, one event
\* block per record with weeks, in the records' order, and the footer once;
\* a record without weeks gives no block and does not stop the later ones.
C6_Document ==
  /\ (pc = "exit" /\ error = "none") => result = "output_file"
  /\ result = "output_file" =>
       /\ ics_exists
       /\ Len(ics_file) = Len(WithWeeks) + 2
       /\ ics_file[1] = [kind |-> "header"]
       /\ ics_file[Len(ics_file)] = [kind |-> "footer"]
       /\ \A k \in 1..Len(WithWeeks) :
            /\ ics_file[k + 1].kind = "event"
            /\ ics_file[k + 1].summary = WithWeeks[k].name
            /\ ics_file[k + 1].location = WithWeeks[k].position

C6_Witness ==
  /\ result = "output_file"
  /\ Len(courses) = 2
  /\ courses[1].weeks_array = <<>>
  /\ Len(ics_file) = 3
  /\ ics_file[2].summary = <<"P">>

TermWeek(date) == ((date - initial_time) \div 7) + 1

\* the dates FREQ=WEEKLY;INTERVAL=n;UNTIL=u generates from DTSTART.  UNTIL is
\* midnight UTC of its date, 08:00 in Asia/Shanghai, and no candidate falls on
\* that date, so whole dates decide which candidates the bound admits.
Occurrences(ev) ==
  LET first == Strptime(ev.dtstart.date)
      until == Strptime(ev.until.date)
  IN { d \in { first + 7 * ev.interval * n : n \in 0..(MaxWeek + 2) } :
         d <= until }

\* C10: with a Monday anchor and a weekday in 1..7 the rule's occurrences
\* fall in exactly the weeks startWeek, startWeek+INTERVAL, ..., endWeek: the
\* first in startWeek, the last in endWeek, and every week of the week-set
\* has one.
C10_Occurrences ==
  \A k \in Emitted :
    LET c == CourseOf(k)
        W == SetOf(c.weeks_array)
        ev == EventAt(k)
        occ == { TermWeek(d) : d \in Occurrences(ev) }
    IN (MondayAnchor /\ c.day \in 1..7) =>
         /\ occ = { w \in Min(W)..Max(W) : (w - Min(W)) % ev.interval = 0 }
         /\ TermWeek(Strptime(ev.dtstart.date)) = Min(W)
         /\ Max(W) \in occ
         /\ W \subseteq occ

C10_Witness ==
  /\ Len(emitted) = 2
  /\ MondayAnchor
  /\ CourseOf(1).day = 7
  /\ EventAt(1).interval = 2
  /\ emitted[1].locals.start_week = 2
  /\ emitted[1].locals.end_week = 4
  /\ EventAt(2).interval = 1
  /\ Cardinality(Occurrences(EventAt(2))) = 4
  /\ Len(CourseOf(2).weeks_array) = 3

\* the position parse_course_info gave the record that event k was made from
MergedPosition(k) == course_infos[emitted[k].index].position

\* C5 as stated: LOCATION is the merged position with its newlines kept.
C5_LocationKeepsNewlines ==
  \A k \in Emitted : EventAt(k).location = MergedPosition(k)

\* C5 amended: LOCATION is the merged position with every newline rewritten
\* to a dash, the text of the structured export, and nothing else changed.
C5_LocationDashed ==
  \A k \in Emitted :
    LET p == MergedPosition(k)
        loc == EventAt(k).location
    IN /\ Len(loc) = Len(p)
       /\ \A i \in 1..Len(p) : loc[i] = IF p[i] = "NL" THEN "-" ELSE p[i]

C5_Witness ==
  \E k \in Emitted :
    LET p == MergedPosition(k)
        loc == EventAt(k).location
    IN /\ \E i \in 1..Len(p) : p[i] = "NL" /\ loc[i] = "-"
       /\ \E i \in 1..(Len(p) - 1) : p[i] = "SP" /\ p[i + 1] = "SP"
       /\ \E i \in 1..(Len(p) - 1) : loc[i] = "BS" /\ loc[i + 1] = "n"

Raw(i) == CourseInfo(cells[i])

Key(r) == <<r.day, r.sections, r.weeks>>

Seen(k) == { i \in 1..pi : Key(Raw(i)) = k }

\* the positions of the raw sessions 1..n with key k, joined by two spaces
RECURSIVE Joined(_, _)
Joined(k, n) ==
  IF n = 0 THEN <<>>
  ELSE IF Key(Raw(n)) # k THEN Joined(k, n - 1)
  ELSE IF \E i \in 1..(n - 1) : Key(Raw(i)) = k
       THEN Joined(k, n - 1) \o <<"SP", "SP">> \o Raw(n).position
       ELSE Raw(n).position

\* C9: after any prefix of the raw sessions the list has one entry per key
\* seen, in order of first appearance; an entry's position is the positions
\* of the raw sessions of its key, in order, joined by two spaces, and its
\* other fields are those of the first raw session of its key.
C9_MergeInvariant ==
  LET n == Len(course_infos)
  IN /\ n = Cardinality({ Key(Raw(i)) : i \in 1..pi })
     /\ \A a \in 1..n, b \in 1..n :
          a < b => /\ Key(course_infos[a]) # Key(course_infos[b])
                   /\ Min(Seen(Key(course_infos[a])))
                        < Min(Seen(Key(course_infos[b])))
     /\ \A a \in 1..n :
          LET k == Key(course_infos[a])
          IN /\ Seen(k) # {}
             /\ course_infos[a].position = Joined(k, pi)
             /\ course_infos[a].name = Raw(Min(Seen(k))).name
             /\ course_infos[a].teacher = Raw(Min(Seen(k))).teacher

C9_Witness ==
  /\ pi = 4
  /\ Len(course_infos) = 2
  /\ Cardinality(Seen(Key(course_infos[1]))) = 2
  /\ Seen(Key(course_infos[2])) = {2, 4}
  /\ Raw(1).name # Raw(3).name
  /\ Raw(2).position # Raw(4).position

DistinctKeys(L) ==
  \A i \in 1..Len(L), j \in 1..Len(L) :
    i # j => Key(CourseInfo(L[i])) # Key(CourseInfo(L[j]))

\* what C8 says of the merge of a list made of L with each entry twice
MergedTwice(L) ==
  /\ Len(course_infos) = Len(L)
  /\ \A i \in 1..Len(L) :
       LET r == CourseInfo(L[i])
       IN /\ Key(course_infos[i]) = Key(r)
          /\ course_infos[i].position = r.position \o <<"SP", "SP">> \o r.position
          /\ Len(course_infos[i].position) = 2 * Len(r.position) + 2

\* C8: for a list L of pairwise distinct keys, the merge of L with each entry
\* duplicated (L followed by L, or each entry followed by its copy) has as
\* many sessions as L, in L's order, each position the original, two
\* spaces, and the original again.
C8_MergeTwice ==
  (pc = "parse" /\ pi = Len(cells) /\ Len(cells) % 2 = 0) =>
    LET h == Len(cells) \div 2
        front == SubSeq(cells, 1, h)
        odds == [i \in 1..h |-> cells[2 * i - 1]]
    IN /\ (cells = front \o front /\ DistinctKeys(front)) => MergedTwice(front)
       /\ ((\A i \in 1..h : cells[2 * i] = cells[2 * i - 1]) /\ DistinctKeys(odds))
            => MergedTwice(odds)

C8_Witness ==
  /\ pi = Len(cells)
  /\ Len(cells) = 4
  /\ cells[1] # cells[2]
  /\ cells = SubSeq(cells, 1, 2) \o SubSeq(cells, 1, 2)
  /\ DistinctKeys(SubSeq(cells, 1, 2))
  /\ CourseInfo(cells[1]).weeks # CourseInfo(cells[2]).weeks
  /\ Len(course_infos) = 2

====
